---- MODULE Spec2Model ----
(***************************************************************************)
(* A model of chalice/cli/factory.py: the CLI factory that reads a         *)
(* project's .chalice/config.json, gates its version, imports the user's   *)
(* app.py through the process-wide sys.path / sys.modules, builds the      *)
(* layered Config, creates the botocore session and filters large request  *)
(* bodies out of the debug log.                                            *)
(*                                                                         *)
(* Python values are tagged records ([type |-> "str", v |-> ...]) so that  *)
(* None, booleans and strings can be compared with each other.             *)
(***************************************************************************)
EXTENDS Integers, Sequences, FiniteSets, TLC

VARIABLES
    fs,            \* the disk: app.py per directory, which vendor dirs exist
    sys_path,      \* sys.path, the process-wide module search path
    sys_modules,   \* sys.modules restricted to the name 'app'
    initPath,      \* history: sys.path when the process started
    loads,         \* history: per factory, calls that entered load_chalice_app
    imports,       \* history: per factory, calls of importlib.import_module
    result,        \* the last call on a factory: its inputs and its outcome
    vstr,          \* version validation: the 'version' entry under test
    vres,          \* version validation: outcome of _validate_config_from_disk
    record,        \* log filter: the LogRecord (msg, args), mutated in place
    orig,          \* history: the LogRecord as it was emitted
    fret,          \* log filter: what filter() returned or raised
    sdk,           \* botocore's own user agent name and version
    sessions,      \* the sessions create_botocore_session has returned
    root_handlers, \* stream handlers set_debug_logger('') added to logger ''
    endpoint_filters \* filters added to the logger 'botocore.endpoint'

vars == <<fs, sys_path, sys_modules, initPath, loads, imports, result,
          vstr, vres, record, orig, fret,
          sdk, sessions, root_handlers, endpoint_filters>>

factoryVars == <<fs, sys_path, sys_modules, initPath, loads, imports, result>>
versionVars == <<vstr, vres>>
filterVars  == <<record, orig, fret>>
sessionVars == <<sdk, sessions, root_handlers, endpoint_filters>>

-----------------------------------------------------------------------------
(* Bounds of the model *)

MaxInitPath == 2     \* longest sys.path the process starts with
MaxCalls == 2        \* load_chalice_app entries counted per factory
MaxVersionLen == 3   \* longest version string drawn for the version gate
MaxArgs == 2         \* most positional arguments of a LogRecord
MaxSessions == 2     \* sessions created in one process

-----------------------------------------------------------------------------
(* Python values *)

None == [type |-> "NoneType"]
PyStr(s) == [type |-> "str", v |-> s]
PyBool(b) == [type |-> "bool", v |-> b]

NoExc == [type |-> "NoExc"]
NoValue == [type |-> "NoValue"]

Range(s) == {s[i] : i \in 1..Len(s)}
Count(x, s) == Cardinality({i \in 1..Len(s) : s[i] = x})
Min(S) == CHOOSE m \in S : \A n \in S : m <= n
EmptyDict == [k \in {} |-> None]

RECURSIVE SeqsUpTo(_, _)
SeqsUpTo(S, n) ==
    IF n = 0 THEN {<< >>}
    ELSE LET shorter == SeqsUpTo(S, n - 1)
         IN  shorter \cup {Append(s, x) : s \in shorter, x \in S}

-----------------------------------------------------------------------------
(* Configuration version gate: factory.py lines 45-49 and 113-121 *)

Char(s, i) == SubSeq(s, i, i)
Digits == {"0", "1", "2", "3", "4", "5", "6", "7", "8", "9"}
DigitVal(c) ==
    CASE c = "0" -> 0 [] c = "1" -> 1 [] c = "2" -> 2 [] c = "3" -> 3
      [] c = "4" -> 4 [] c = "5" -> 5 [] c = "6" -> 6 [] c = "7" -> 7
      [] c = "8" -> 8 [] c = "9" -> 9
AllDigits(s) == \A i \in 1..Len(s) : Char(s, i) \in Digits

RECURSIVE DigitsVal(_)
DigitsVal(s) ==
    IF Len(s) = 0 THEN 0
    ELSE DigitsVal(SubSeq(s, 1, Len(s) - 1)) * 10 + DigitVal(Char(s, Len(s)))

RECURSIVE Pow10(_)
Pow10(k) == IF k = 0 THEN 1 ELSE 10 * Pow10(k - 1)

RECURSIVE Strip(_)
Strip(s) ==
    IF Len(s) = 0 THEN s
    ELSE IF Char(s, 1) = " " THEN Strip(SubSeq(s, 2, Len(s)))
    ELSE IF Char(s, Len(s)) = " " THEN Strip(SubSeq(s, 1, Len(s) - 1))
    ELSE s

HasSign(s) == Len(s) > 0 /\ Char(s, 1) \in {"-", "+"}
Unsigned(s) == IF HasSign(s) THEN SubSeq(s, 2, Len(s)) ELSE s
IsNegative(s) == Len(s) > 0 /\ Char(s, 1) = "-"
Positions(c, s) == {i \in 1..Len(s) : Char(s, i) = c}

FloatError == [ok |-> FALSE]

\* The mantissa of a float literal: digits with at most one point and at
\* least one digit; the value is mant * 10^-frac.
ParseMantissa(m) ==
    LET dots == Positions(".", m)
    IN  IF Cardinality(dots) > 1 THEN FloatError
        ELSE LET k == IF dots = {} THEN Len(m) + 1 ELSE Min(dots)
                 ip == SubSeq(m, 1, k - 1)
                 fp == SubSeq(m, k + 1, Len(m))
             IN  IF Len(ip) + Len(fp) = 0 \/ ~AllDigits(ip) \/ ~AllDigits(fp)
                 THEN FloatError
                 ELSE [ok |-> TRUE, mant |-> DigitsVal(ip \o fp), frac |-> Len(fp)]

\* The exponent of a float literal: an optional sign and at least one digit.
ParseExponent(e) ==
    LET d == Unsigned(e)
    IN  IF Len(d) = 0 \/ ~AllDigits(d) THEN FloatError
        ELSE [ok |-> TRUE,
              exp |-> IF IsNegative(e) THEN 0 - DigitsVal(d) ELSE DigitsVal(d)]

\* Python's float(str): surrounding blanks are stripped, then an optional
\* sign and either inf, infinity, nan or a decimal literal with an optional
\* exponent.  ok = FALSE is the ValueError.
PyFloat(s) ==
    LET t == Strip(s)
        neg == IsNegative(t)
        u == Unsigned(t)
        es == Positions("e", u)
    IN  IF u \in {"nan"} THEN [ok |-> TRUE, kind |-> "nan", neg |-> neg]
        ELSE IF u \in {"inf", "infinity"}
             THEN [ok |-> TRUE, kind |-> "inf", neg |-> neg]
        ELSE LET k == IF es = {} THEN Len(u) + 1 ELSE Min(es)
                 m == ParseMantissa(SubSeq(u, 1, k - 1))
                 e == IF es = {} THEN [ok |-> TRUE, exp |-> 0]
                      ELSE ParseExponent(SubSeq(u, k + 1, Len(u)))
             IN  IF ~m.ok \/ ~e.ok THEN FloatError
                 ELSE [ok |-> TRUE, kind |-> "finite", neg |-> neg,
                       mant |-> m.mant, exp10 |-> e.exp - m.frac]

\* version > 2.0 on a parsed float.  Every comparison with nan is false.
\* Literals this short are far from the precision of a double, so the
\* comparison is the exact one; mant has fewer than 8 digits.
FloatGreaterThan2(f) ==
    CASE f.kind = "nan" -> FALSE
      [] f.kind = "inf" -> ~f.neg
      [] OTHER ->
            IF f.neg \/ f.mant = 0 THEN FALSE
            ELSE IF f.exp10 >= 1 THEN TRUE
            ELSE IF f.exp10 = 0 THEN f.mant > 2
            ELSE IF 0 - f.exp10 >= 8 THEN FALSE
            ELSE f.mant > 2 * Pow10(0 - f.exp10)

UnknownConfigFileVersion(version) ==
    [type |-> "UnknownConfigFileVersion",
     msg |-> "Unknown version '" \o version \o "' in config.json"]

\* A parsed config.json: a dict of tagged values, or some other JSON value.
Dict(items) == [type |-> "dict", items |-> items]
DictGet(d, key, default) ==
    IF key \in DOMAIN d.items THEN d.items[key] ELSE default

\* version = float(string_version); if version > 2.0: raise ...
\* except ValueError: raise ...   float(None) is a TypeError, not caught.
CheckVersion(string_version) ==
    IF string_version.type # "str"
    THEN [type |-> "TypeError", msg |-> "float() argument must be a string or a number"]
    ELSE LET f == PyFloat(string_version.v)
         IN  IF ~f.ok THEN UnknownConfigFileVersion(string_version.v)
             ELSE IF FloatGreaterThan2(f)
                  THEN UnknownConfigFileVersion(string_version.v)
             ELSE NoExc

\* CLIFactory._validate_config_from_disk: the exception it raises, or NoExc.
\* A config.json that is not a JSON object has no get().
validate_config_from_disk(config) ==
    IF config.type # "dict"
    THEN [type |-> "AttributeError", msg |-> "object has no attribute 'get'"]
    ELSE CheckVersion(DictGet(config, "version", PyStr("1.0")))

VersionAlphabet ==
    {"0", "1", "2", "3", ".", "-", "e", " ", "n", "a", "i", "f"}

RECURSIVE StringsUpTo(_, _)
StringsUpTo(A, n) ==
    IF n = 0 THEN {""}
    ELSE LET shorter == StringsUpTo(A, n - 1)
         IN  shorter \cup {s \o c : s \in shorter, c \in A}

VersionStrings == StringsUpTo(VersionAlphabet, MaxVersionLen)

Pending == [type |-> "Pending"]

VersionInit ==
    /\ vstr \in {Dict(EmptyDict)}
                \cup {Dict("version" :> PyStr(s)) : s \in VersionStrings}
    /\ vres = Pending

ValidateVersion ==
    /\ vres = Pending
    /\ vres' = validate_config_from_disk(vstr)
    /\ UNCHANGED vstr

-----------------------------------------------------------------------------
(* The process and the disk the factory works on *)

DEFAULT_STAGE_NAME == "dev"
chalice_version == "1.0.0"

Roots == {"p1", "p2"}
Lib == "lib"
os_path_join(a, b) == a \o "/" \o b
VendorDirs == {os_path_join(p, "vendor") : p \in Roots}
AppDirs == Roots \cup {Lib}

\* What a directory's app.py is: absent, a module defining app, a file with
\* a syntax error, a module without the app symbol, a module that raises.
AppKinds == {"none", "ok", "syntax", "nosymbol", "runtime"}

\* CLIFactory.__init__
CLIFactory(project_dir, debug, profile) ==
    [project_dir |-> project_dir, debug |-> debug, profile |-> profile]

Factories ==
    {CLIFactory("p1", FALSE, None), CLIFactory("p2", TRUE, PyStr("dev"))}

-----------------------------------------------------------------------------
(* load_chalice_app: factory.py lines 133-167 *)

\* Lines 135-155 with every membership test dropped.
AdjustSearchPathAlways(self, path, fsv) ==
    LET vendor_dir == os_path_join(self.project_dir, "vendor")
        p1 == <<self.project_dir>> \o path
    IN  IF vendor_dir \in fsv.dirs THEN Append(p1, vendor_dir) ELSE p1

\* Lines 135-155: the project directory goes to the front and an existing
\* vendor directory to the end, each only when it is not on sys.path yet.
AdjustSearchPath(self, path, fsv) ==
    LET vendor_dir == os_path_join(self.project_dir, "vendor")
        p1 == IF self.project_dir \notin Range(path)
              THEN <<self.project_dir>> \o path
              ELSE path
    IN  IF vendor_dir \in fsv.dirs /\ vendor_dir \notin Range(p1)
        THEN Append(p1, vendor_dir)
        ELSE p1

SyntaxErrorIn(d) ==
    [type |-> "SyntaxError", filename |-> os_path_join(d, "app.py"),
     lineno |-> 5, text |-> "def index(:", msg |-> "invalid syntax"]

HasApp(d, appfile) == d \in DOMAIN appfile /\ appfile[d] # "none"

\* importlib.import_module('app'): the cached module when sys.modules has
\* one, else the app.py of the first sys.path entry holding one is executed;
\* a module that executed to its end is cached, one that raised is not.
import_module(path, modules, appfile) ==
    IF modules # {}
    THEN [exc |-> NoExc, module |-> CHOOSE m \in modules : TRUE,
          modules |-> modules]
    ELSE LET hits == {i \in 1..Len(path) : HasApp(path[i], appfile)}
         IN  IF hits = {}
             THEN [exc |-> [type |-> "ImportError", msg |-> "No module named app"],
                   module |-> NoValue, modules |-> modules]
             ELSE LET d == path[Min(hits)]
                      m == [name |-> "app", origin |-> d,
                            attrs |-> IF appfile[d] = "ok" THEN {"app"} ELSE {}]
                  IN  CASE appfile[d] = "syntax" ->
                             [exc |-> SyntaxErrorIn(d), module |-> NoValue,
                              modules |-> modules]
                        [] appfile[d] = "runtime" ->
                             [exc |-> [type |-> "ZeroDivisionError",
                                       msg |-> "division by zero"],
                              module |-> NoValue, modules |-> modules]
                        [] OTHER ->
                             [exc |-> NoExc, module |-> m, modules |-> {m}]

\* Lines 157-158, the body of the try: import the module, take its app.
TryImport(path, modules, appfile) ==
    LET imp == import_module(path, modules, appfile)
    IN  IF imp.exc # NoExc
        THEN [exc |-> imp.exc, value |-> NoValue, modules |-> imp.modules]
        ELSE IF "app" \in imp.module.attrs
             THEN [exc |-> NoExc,
                   value |-> [type |-> "Chalice", defined_in |-> imp.module.origin],
                   modules |-> imp.modules]
             ELSE [exc |-> [type |-> "AttributeError",
                            msg |-> "module has no attribute 'app'"],
                   value |-> NoValue, modules |-> imp.modules]

RuntimeError(message) == [type |-> "RuntimeError", msg |-> message]

ImportErrorMessage(e) ==
    "Unable to import your app.py file:\n\nFile \"" \o e.filename
    \o "\", line " \o ToString(e.lineno) \o "\n  " \o e.text
    \o "\nSyntaxError: " \o e.msg

\* A handler that catches every exception of the try.
TranslateAnyError(e) ==
    IF e = NoExc THEN e
    ELSE IF e.type = "SyntaxError" THEN RuntimeError(ImportErrorMessage(e))
    ELSE RuntimeError("Unable to import your app.py file")

\* Lines 159-166: except SyntaxError; anything else is not caught.
TranslateImportError(e) ==
    IF e.type = "SyntaxError" THEN RuntimeError(ImportErrorMessage(e)) ELSE e

\* load_chalice_app that returns the cached module's app without importing.
load_chalice_app_cached(self, path, modules, fsv) ==
    LET p == AdjustSearchPath(self, path, fsv)
        t == TryImport(p, modules, fsv.appfile)
    IN  [sys_path |-> p, sys_modules |-> t.modules, raised |-> t.exc,
         exc |-> TranslateImportError(t.exc), value |-> t.value,
         loads |-> 1, imports |-> IF modules # {} THEN 0 ELSE 1]

\* CLIFactory.load_chalice_app: its effect on sys.path and sys.modules, the
\* exception the try raised, the one that reaches the caller, the value.
load_chalice_app(self, path, modules, fsv) ==
    LET p == AdjustSearchPath(self, path, fsv)
        t == TryImport(p, modules, fsv.appfile)
    IN  [sys_path |-> p, sys_modules |-> t.modules, raised |-> t.exc,
         exc |-> TranslateImportError(t.exc), value |-> t.value,
         loads |-> 1, imports |-> 1]

-----------------------------------------------------------------------------
(* create_config_obj: factory.py lines 87-111 and 169-178 *)

\* What open() and json.loads() meet at <project>/.chalice/config.json.
ConfigFile(state, parsed) == [state |-> state, parsed |-> parsed]

\* CLIFactory.load_project_config: open() fails with IOError/OSError,
\* json.loads fails with ValueError, else the parsed JSON value.
load_project_config(self, file) ==
    CASE file.state = "missing" ->
           [exc |-> [type |-> "IOError", msg |-> "No such file or directory"],
            value |-> NoValue]
      [] file.state = "garbage" ->
           [exc |-> [type |-> "ValueError", msg |-> "No JSON object could be decoded"],
            value |-> NoValue]
      [] OTHER -> [exc |-> NoExc, value |-> file.parsed]

ConfigUnreadable ==
    RuntimeError("Unable to load the project config file. "
                 \o "Are you sure this is a chalice project?")

\* Lines 100-106 with autogen_policy always placed in the user layer.
UserProvidedParamsAlways(self, app_obj, autogen_policy, api_gateway_stage) ==
    ("chalice_app" :> app_obj)
    @@ ("autogen_policy" :> autogen_policy)
    @@ (IF self.profile # None THEN "profile" :> self.profile ELSE EmptyDict)
    @@ (IF api_gateway_stage # None
        THEN "api_gateway_stage" :> api_gateway_stage ELSE EmptyDict)

\* Lines 90 and 100-106: the keys of the user-provided layer.
UserProvidedParams(self, app_obj, autogen_policy, api_gateway_stage) ==
    ("chalice_app" :> app_obj)
    @@ (IF autogen_policy # None
        THEN "autogen_policy" :> autogen_policy ELSE EmptyDict)
    @@ (IF self.profile # None THEN "profile" :> self.profile ELSE EmptyDict)
    @@ (IF api_gateway_stage # None
        THEN "api_gateway_stage" :> api_gateway_stage ELSE EmptyDict)

\* Lines 91-92
DefaultParams(self) ==
    ("project_dir" :> PyStr(self.project_dir))
    @@ ("autogen_policy" :> PyBool(TRUE))

\* Lines 107-110: the Config object holds the stage and the three layers.
Config(chalice_stage, user_provided_params, config_from_disk, default_params) ==
    [type |-> "Config", chalice_stage |-> chalice_stage,
     user_provided_params |-> user_provided_params,
     config_from_disk |-> config_from_disk,
     default_params |-> default_params]

\* The merge of the configuration model: user-provided, then disk, then
\* default.
ConfigLookup(config, key) ==
    IF key \in DOMAIN config.user_provided_params
    THEN config.user_provided_params[key]
    ELSE IF key \in DOMAIN config.config_from_disk.items
    THEN config.config_from_disk.items[key]
    ELSE IF key \in DOMAIN config.default_params
    THEN config.default_params[key]
    ELSE None

Failed(e, path, modules) ==
    [sys_path |-> path, sys_modules |-> modules, raised |-> NoExc, exc |-> e,
     value |-> NoValue, loads |-> 0, imports |-> 0]

\* create_config_obj that loads the application before it validates.
create_config_obj_load_first(self, args, file, path, modules, fsv) ==
    LET rd == load_project_config(self, file)
        l == load_chalice_app(self, path, modules, fsv)
        v == validate_config_from_disk(rd.value)
    IN  IF rd.exc.type \in {"OSError", "IOError"}
        THEN Failed(ConfigUnreadable, path, modules)
        ELSE IF rd.exc # NoExc THEN Failed(rd.exc, path, modules)
        ELSE IF l.exc # NoExc THEN l
        ELSE IF v # NoExc THEN [l EXCEPT !.exc = v, !.value = NoValue]
        ELSE [l EXCEPT !.value =
                 Config(args.chalice_stage_name,
                        UserProvidedParams(self, l.value, args.autogen_policy,
                                           args.api_gateway_stage),
                        rd.value, DefaultParams(self))]

\* create_config_obj whose handler catches every exception of the read.
create_config_obj_catch_all(self, args, file, path, modules, fsv) ==
    LET rd == load_project_config(self, file)
    IN  IF rd.exc # NoExc THEN Failed(ConfigUnreadable, path, modules)
        ELSE LET v == validate_config_from_disk(rd.value)
             IN  IF v # NoExc THEN Failed(v, path, modules)
                 ELSE LET l == load_chalice_app(self, path, modules, fsv)
                      IN  IF l.exc # NoExc THEN l
                          ELSE [l EXCEPT !.value =
                                   Config(args.chalice_stage_name,
                                          UserProvidedParams(
                                              self, l.value, args.autogen_policy,
                                              args.api_gateway_stage),
                                          rd.value, DefaultParams(self))]

\* CLIFactory.create_config_obj: read, validate, load the app, build Config.
create_config_obj(self, args, file, path, modules, fsv) ==
    LET rd == load_project_config(self, file)
    IN  IF rd.exc.type \in {"OSError", "IOError"}
        THEN Failed(ConfigUnreadable, path, modules)
        ELSE IF rd.exc # NoExc THEN Failed(rd.exc, path, modules)
        ELSE LET v == validate_config_from_disk(rd.value)
             IN  IF v # NoExc THEN Failed(v, path, modules)
                 ELSE LET l == load_chalice_app(self, path, modules, fsv)
                      IN  IF l.exc # NoExc THEN l
                          ELSE [l EXCEPT !.value =
                                   Config(args.chalice_stage_name,
                                          UserProvidedParams(
                                              self, l.value, args.autogen_policy,
                                              args.api_gateway_stage),
                                          rd.value, DefaultParams(self))]

NoArgs == [type |-> "NoArgs"]
NoFile == ConfigFile("unread", NoValue)

\* The inputs drawn for create_config_obj.
CallArgs ==
    [chalice_stage_name : {DEFAULT_STAGE_NAME},
     autogen_policy : {None, PyBool(TRUE), PyBool(FALSE)},
     api_gateway_stage : {None, PyStr("api")}]

DiskVersions == {PyStr("2.0"), PyStr("3.0"), None}
DiskConfigs ==
    {Dict(EmptyDict), Dict("autogen_policy" :> PyBool(FALSE)),
     Dict(("version" :> PyStr("2.0")) @@ ("autogen_policy" :> PyBool(FALSE)))}
    \cup {Dict("version" :> v) : v \in DiskVersions}
ConfigFiles ==
    {ConfigFile("missing", NoValue), ConfigFile("garbage", NoValue), ConfigFile("json", [type |-> "list"])}
    \cup {ConfigFile("json", d) : d \in DiskConfigs}

Bump(counter, self, n) == [counter EXCEPT ![self] = @ + n]

LoadChaliceApp(self) ==
    /\ loads[self] < MaxCalls
    /\ \E r \in {load_chalice_app(self, sys_path, sys_modules, fs)} :
           /\ sys_path' = r.sys_path
           /\ sys_modules' = r.sys_modules
           /\ loads' = Bump(loads, self, r.loads)
           /\ imports' = Bump(imports, self, r.imports)
           /\ result' = [op |-> "load_chalice_app", self |-> self,
                         args |-> NoArgs, file |-> NoFile,
                         raised |-> r.raised, exc |-> r.exc, value |-> r.value]
    /\ UNCHANGED <<fs, initPath>>

CreateConfigObj(self, args, file) ==
    /\ loads[self] < MaxCalls
    /\ \E r \in {create_config_obj(self, args, file, sys_path, sys_modules, fs)} :
           /\ sys_path' = r.sys_path
           /\ sys_modules' = r.sys_modules
           /\ loads' = Bump(loads, self, r.loads)
           /\ imports' = Bump(imports, self, r.imports)
           /\ result' = [op |-> "create_config_obj", self |-> self,
                         args |-> args, file |-> file,
                         raised |-> r.raised, exc |-> r.exc, value |-> r.value]
    /\ UNCHANGED <<fs, initPath>>

NoCall == [op |-> "none", self |-> NoValue, args |-> NoArgs, file |-> NoFile,
           raised |-> NoExc, exc |-> NoExc, value |-> NoValue]

FactoryInitWith(appfiles, dirsets, paths) ==
    /\ fs \in [appfile : appfiles, dirs : dirsets]
    /\ sys_path \in paths
    /\ initPath = sys_path
    /\ sys_modules = {}
    /\ loads = [f \in Factories |-> 0]
    /\ imports = [f \in Factories |-> 0]
    /\ result = NoCall

-----------------------------------------------------------------------------
(* LargeRequestBodyFilter: factory.py lines 52-67 *)

Placeholder == PyStr("(... omitted from logs due to size ...)")
OperationModel(name) == [type |-> "OperationModel", name |-> name]
LogRecord(msg, args) == [msg |-> msg, args |-> args]

startswith(s, prefix) ==
    Len(s) >= Len(prefix) /\ SubSeq(s, 1, Len(prefix)) = prefix

Front(s) == SubSeq(s, 1, Len(s) - 1)

\* LargeRequestBodyFilter.filter: what it returns or raises, and the record
\* after it.  record.args[0] of an empty tuple is an IndexError, .name of an
\* object without that attribute an AttributeError.
filter(rec) ==
    IF startswith(rec.msg, "Making request")
    THEN IF Len(rec.args) = 0
         THEN [ret |-> [type |-> "IndexError", msg |-> "tuple index out of range"],
               record |-> rec]
         ELSE IF "name" \notin DOMAIN rec.args[1]
         THEN [ret |-> [type |-> "AttributeError",
                        msg |-> "object has no attribute 'name'"],
               record |-> rec]
         ELSE IF rec.args[1].name \in {"UpdateFunctionCode", "CreateFunction"}
         THEN [ret |-> PyBool(TRUE),
               record |-> [rec EXCEPT !.args = Front(rec.args) \o <<Placeholder>>]]
         ELSE [ret |-> PyBool(TRUE), record |-> rec]
    ELSE [ret |-> PyBool(TRUE), record |-> rec]

LogMessages ==
    {"Making request for %s with params: %s", "Making request",
     "Making reques", "making request for %s", "Sending http request: %s", ""}
LogArguments ==
    {OperationModel("CreateFunction"), OperationModel("UpdateFunctionCode"),
     OperationModel("GetFunction"), PyStr("UEsDBBQAAAAI")}
LogRecords ==
    {LogRecord(m, a) : m \in LogMessages, a \in SeqsUpTo(LogArguments, MaxArgs)}

FilterInit ==
    /\ record \in LogRecords
    /\ orig = record
    /\ fret = Pending

FilterRecord ==
    /\ fret = Pending
    /\ LET r == filter(record)
       IN  /\ fret' = r.ret
           /\ record' = r.record
    /\ UNCHANGED orig

-----------------------------------------------------------------------------
(* create_botocore_session: factory.py lines 21-42 and 77-80 *)

\* Session(profile=profile): botocore names itself in the user agent.
Session(profile, botocore) ==
    [profile |-> profile, user_agent_name |-> botocore.name,
     user_agent_version |-> botocore.version, user_agent_extra |-> ""]

\* The suffix taken after the name and the version were overwritten.
add_chalice_user_agent_late(session) ==
    LET s1 == [session EXCEPT !.user_agent_name = "aws-chalice",
                              !.user_agent_version = chalice_version]
    IN  [s1 EXCEPT !.user_agent_extra =
             s1.user_agent_name \o "/" \o s1.user_agent_version]

\* _add_chalice_user_agent
add_chalice_user_agent(session) ==
    LET suffix == session.user_agent_name \o "/" \o session.user_agent_version
    IN  [session EXCEPT !.user_agent_name = "aws-chalice",
                        !.user_agent_version = chalice_version,
                        !.user_agent_extra = suffix]

\* create_botocore_session: the session, and the handlers of the root
\* logger and the filters of 'botocore.endpoint' after the call.
create_botocore_session(profile, debug, botocore, handlers, filters) ==
    LET s == add_chalice_user_agent(Session(profile, botocore))
    IN  IF debug
        THEN [session |-> s, root_handlers |-> handlers + 1,
              endpoint_filters |-> filters + 1]
        ELSE [session |-> s, root_handlers |-> handlers,
              endpoint_filters |-> filters]

Profiles == {None, PyStr("dev"), PyStr("prod")}
BotocoreVersions == {"1.5.0", "1.8.2", "1.10.4"}

SessionInit ==
    /\ sdk \in [name : {"Botocore"}, version : BotocoreVersions]
    /\ sessions = << >>
    /\ root_handlers = 0
    /\ endpoint_filters = 0

SessionCreated(profile, debug) ==
    /\ Len(sessions) < MaxSessions
    /\ LET r == create_botocore_session(profile, debug, sdk, root_handlers,
                                        endpoint_filters)
       IN  /\ sessions' = Append(sessions, [session |-> r.session, debug |-> debug])
           /\ root_handlers' = r.root_handlers
           /\ endpoint_filters' = r.endpoint_filters
    /\ UNCHANGED sdk

\* create_botocore_session(profile, debug) called directly
CreateBotocoreSession(profile, debug) == SessionCreated(profile, debug)

\* CLIFactory.create_botocore_session
FactoryCreateBotocoreSession(self) == SessionCreated(self.profile, self.debug)

-----------------------------------------------------------------------------
(* Specifications *)

FactoryIdle == FactoryInitWith({[d \in AppDirs |-> "ok"]}, {{}}, {<< >>})
VersionIdle == vstr = Dict(EmptyDict) /\ vres = Pending
FilterIdle ==
    /\ record = LogRecord("", << >>)
    /\ orig = record
    /\ fret = Pending
SessionIdle ==
    /\ sdk = [name |-> "Botocore", version |-> "1.5.0"]
    /\ sessions = << >>
    /\ root_handlers = 0
    /\ endpoint_filters = 0

PathEntries == {Lib, "p1", os_path_join("p1", "vendor")}

\* The factory in a process whose sys.path holds site-packages only.
Init ==
    /\ FactoryInitWith(
           {a \in [AppDirs -> AppKinds] : a["p2"] = "ok" /\ a[Lib] = "none"},
           {{}, {os_path_join("p1", "vendor")}},
           {<<Lib>>})
    /\ VersionIdle /\ FilterIdle /\ SessionIdle

Next ==
    \/ \E self \in Factories : LoadChaliceApp(self) /\ UNCHANGED <<versionVars, filterVars, sessionVars>>
    \/ \E self \in Factories, args \in CallArgs, file \in ConfigFiles :
          CreateConfigObj(self, args, file) /\ UNCHANGED <<versionVars, filterVars, sessionVars>>

Spec == Init /\ [][Next]_vars

\* load_chalice_app alone, from any sys.path and any app.py files.
LoadInit ==
    /\ FactoryInitWith(
           {a \in [AppDirs -> AppKinds] :
                a["p2"] \in {"ok", "syntax", "none"} /\ a[Lib] \in {"ok", "none"}},
           SUBSET VendorDirs,
           SeqsUpTo(PathEntries, MaxInitPath))
    /\ VersionIdle /\ FilterIdle /\ SessionIdle

LoadNext ==
    \E self \in Factories : LoadChaliceApp(self) /\ UNCHANGED <<versionVars, filterVars, sessionVars>>

SpecLoad == LoadInit /\ [][LoadNext]_vars

VersionSpecInit == VersionInit /\ FactoryIdle /\ FilterIdle /\ SessionIdle
VersionNext == ValidateVersion /\ UNCHANGED <<factoryVars, filterVars, sessionVars>>
SpecVersion == VersionSpecInit /\ [][VersionNext]_vars

FilterSpecInit == FilterInit /\ FactoryIdle /\ VersionIdle /\ SessionIdle
FilterNext == FilterRecord /\ UNCHANGED <<factoryVars, versionVars, sessionVars>>
SpecFilter == FilterSpecInit /\ [][FilterNext]_vars

SessionSpecInit == SessionInit /\ FactoryIdle /\ VersionIdle /\ FilterIdle
SessionNext ==
    \/ \E profile \in Profiles, debug \in BOOLEAN :
          CreateBotocoreSession(profile, debug) /\ UNCHANGED <<factoryVars, versionVars, filterVars>>
    \/ \E self \in Factories :
          FactoryCreateBotocoreSession(self) /\ UNCHANGED <<factoryVars, versionVars, filterVars>>
SpecSession == SessionSpecInit /\ [][SessionNext]_vars

-----------------------------------------------------------------------------
(* Properties *)

\* A version string that float() parses to a number (not nan) that does
\* not exceed 2.0.
IsDecimalAtMost2(s) ==
    LET f == PyFloat(s)
    IN  f.ok /\ f.kind # "nan" /\ ~FloatGreaterThan2(f)

Contains(s, part) ==
    \E i \in 1..(Len(s) - Len(part) + 1) : SubSeq(s, i, i + Len(part) - 1) = part

RECURSIVE IsSubsequence(_, _)
IsSubsequence(s, t) ==
    IF Len(s) = 0 THEN TRUE
    ELSE IF Len(t) = 0 THEN FALSE
    ELSE IF Head(s) = Head(t) THEN IsSubsequence(Tail(s), Tail(t))
    ELSE IsSubsequence(s, Tail(t))

FactoriesOf(root) == {f \in Factories : f.project_dir = root}

\* Every load so far was made by a factory of this project root.
OnlyRootLoaded(root) ==
    /\ \E f \in FactoriesOf(root) : loads[f] > 0
    /\ \A f \in Factories \ FactoriesOf(root) : loads[f] = 0

\* C1: the version validation succeeds exactly when the 'version' key is
\* absent or its string parses as a decimal number not exceeding 2.0, and
\* in every other case fails with UnknownConfigFileVersion carrying the
\* literal string.
C1_VersionGate ==
    vres # Pending =>
        IF "version" \notin DOMAIN vstr.items THEN vres = NoExc
        ELSE LET v == vstr.items["version"].v
             IN  /\ vres = NoExc <=> IsDecimalAtMost2(v)
                 /\ vres # NoExc => vres = UnknownConfigFileVersion(v)

\* C2 as claimed: for any initial sys.path, after loads with one project
\* root the root is on sys.path exactly once and at the front, and its
\* vendor directory, when it exists, exactly once and at the end.
C2_AnyInitialPath ==
    \A root \in Roots :
        OnlyRootLoaded(root) =>
            LET vendor_dir == os_path_join(root, "vendor")
            IN  /\ Head(sys_path) = root
                /\ Count(root, sys_path) = 1
                /\ vendor_dir \in fs.dirs =>
                       /\ Count(vendor_dir, sys_path) = 1
                       /\ sys_path[Len(sys_path)] = vendor_dir

C2_PathShape ==
    \A root \in Roots :
        OnlyRootLoaded(root) =>
            LET vendor_dir == os_path_join(root, "vendor")
            IN  /\ root \notin Range(initPath) =>
                       Head(sys_path) = root /\ Count(root, sys_path) = 1
                /\ root \in Range(initPath) =>
                       Count(root, sys_path) = Count(root, initPath)
                /\ (vendor_dir \in fs.dirs /\ vendor_dir \notin Range(initPath)) =>
                       /\ Count(vendor_dir, sys_path) = 1
                       /\ sys_path[Len(sys_path)] = vendor_dir
                /\ vendor_dir \in Range(initPath) =>
                       Count(vendor_dir, sys_path) = Count(vendor_dir, initPath)
                /\ (vendor_dir \notin fs.dirs /\ vendor_dir \notin Range(initPath)) =>
                       vendor_dir \notin Range(sys_path)
                /\ IsSubsequence(initPath, sys_path)

C2_SecondCallKeepsPath ==
    \A f \in Factories :
        ((\E g \in FactoriesOf(f.project_dir) : loads[g] > 0)
           /\ loads'[f] = loads[f] + 1)
        => sys_path' = sys_path

\* C2 amended: after loads with one project root, a root that was not on
\* the initial sys.path is on it exactly once and at the front, an existing
\* vendor directory that was not on it is on it exactly once and at the
\* end, a root or vendor directory that was on it already stays where and
\* as often as it was, and a further load with the same root leaves
\* sys.path unchanged.
C2_Idempotent == []C2_PathShape /\ [][C2_SecondCallKeepsPath]_vars

C2_Witness ==
    /\ initPath = <<Lib>>
    /\ \E f \in FactoriesOf("p1") : loads[f] = 2
    /\ OnlyRootLoaded("p1")
    /\ sys_path = <<"p1", Lib, os_path_join("p1", "vendor")>>

IsSyntaxLoadError(r) ==
    /\ r.raised.type = "SyntaxError"
    /\ r.exc.type = "RuntimeError"
    /\ Contains(r.exc.msg, "Unable to import your app.py file")

C4_Layers ==
    (result.op = "create_config_obj" /\ result.exc = NoExc) =>
        LET c == result.value
            a == result.args
            user == c.user_provided_params
        IN  /\ "autogen_policy" \in DOMAIN user <=> a.autogen_policy # None
            /\ "autogen_policy" \in DOMAIN user =>
                   user["autogen_policy"] = a.autogen_policy
            /\ "profile" \in DOMAIN user <=> result.self.profile # None
            /\ "profile" \in DOMAIN user => user["profile"] = result.self.profile
            /\ "api_gateway_stage" \in DOMAIN user <=> a.api_gateway_stage # None
            /\ c.default_params["autogen_policy"] = PyBool(TRUE)
            /\ DictGet(c.config_from_disk, "autogen_policy", None) = PyBool(FALSE) =>
                   /\ a.autogen_policy = PyBool(TRUE) =>
                          ConfigLookup(c, "autogen_policy") = PyBool(TRUE)
                   /\ a.autogen_policy = None =>
                          ConfigLookup(c, "autogen_policy") = PyBool(FALSE)

C4_Witness ==
    /\ result.op = "create_config_obj"
    /\ result.exc = NoExc
    /\ result.args.autogen_policy = None
    /\ DictGet(result.value.config_from_disk, "autogen_policy", None) = PyBool(FALSE)
    /\ "autogen_policy" \notin DOMAIN result.value.user_provided_params
    /\ ConfigLookup(result.value, "autogen_policy") = PyBool(FALSE)

\* C5: load_chalice_app fails with the application-load error, whose
\* message carries the file path, the line number, the source line and the
\* syntax description, exactly when the import raised a SyntaxError; any
\* other exception of the import or of taking the app symbol reaches the
\* caller as it was raised.
C5_SyntaxErrorOnly ==
    result.op = "load_chalice_app" =>
        /\ result.exc.type = "RuntimeError" <=> result.raised.type = "SyntaxError"
        /\ result.raised.type = "SyntaxError" =>
               /\ Contains(result.exc.msg, "File \"" \o result.raised.filename \o "\"")
               /\ Contains(result.exc.msg, "line " \o ToString(result.raised.lineno))
               /\ Contains(result.exc.msg, result.raised.text)
               /\ Contains(result.exc.msg, "SyntaxError: " \o result.raised.msg)
        /\ result.raised.type # "SyntaxError" => result.exc = result.raised
        /\ result.exc = NoExc <=> result.value # NoValue

C5_Witness ==
    /\ result.op = "load_chalice_app"
    /\ result.raised.type = "SyntaxError"
    /\ result.exc.type = "RuntimeError"
    /\ Contains(result.exc.msg, "File \"p1/app.py\", line 5")

\* C6 as claimed: a factory instance performs the application import at
\* most once.
C6_AtMostOnce == \A f \in Factories : imports[f] <= 1

\* C6 amended: a factory keeps no loaded application: every call that
\* enters load_chalice_app (directly, or from a create_config_obj whose
\* config was read and validated) performs the import, so an instance has
\* imported as often as it has entered load_chalice_app.
C6_ImportPerLoad == \A f \in Factories : imports[f] = loads[f]

C6_Witness ==
    \E f \in Factories :
        imports[f] = 2 /\ result.self = f /\ result.op = "create_config_obj"

InvalidVersionFile(file) ==
    /\ file.state = "json"
    /\ file.parsed.type = "dict"
    /\ "version" \in DOMAIN file.parsed.items
    /\ file.parsed.items["version"].type = "str"
    /\ ~IsDecimalAtMost2(file.parsed.items["version"].v)

C9_FailsBeforeLoad ==
    (/\ result'.op = "create_config_obj"
     /\ result'.file.state = "missing" \/ InvalidVersionFile(result'.file))
    => /\ sys_path' = sys_path
       /\ sys_modules' = sys_modules
       /\ imports' = imports
       /\ loads' = loads
       /\ result'.value = NoValue
       /\ result'.exc = ConfigUnreadable
              \/ result'.exc.type = "UnknownConfigFileVersion"

\* C9: a create_config_obj call whose config file cannot be read or whose
\* version is invalid fails before the application is loaded and before
\* any merge: sys.path and sys.modules are unchanged, nothing was imported
\* and no Config was built.
C9_ValidateBeforeLoad == [][C9_FailsBeforeLoad]_vars

C9_Witness ==
    /\ result.op = "create_config_obj"
    /\ InvalidVersionFile(result.file)
    /\ result.exc = UnknownConfigFileVersion("3.0")
    /\ sys_path = initPath
    /\ sys_modules = {}
    /\ fs.appfile[result.self.project_dir] = "ok"

\* C7: every session returned has the name aws-chalice, the tool's version
\* and, as extra, botocore's own name/version as they were before the
\* rewrite; the debug handler and the filter on botocore.endpoint were
\* installed once for each session created with debug and never otherwise.
C7_UserAgent ==
    LET debugs == {i \in 1..Len(sessions) : sessions[i].debug}
    IN  /\ \A i \in 1..Len(sessions) :
               /\ sessions[i].session.user_agent_name = "aws-chalice"
               /\ sessions[i].session.user_agent_version = chalice_version
               /\ sessions[i].session.user_agent_extra = sdk.name \o "/" \o sdk.version
        /\ root_handlers = Cardinality(debugs)
        /\ endpoint_filters = Cardinality(debugs)

C7_Witness ==
    /\ Len(sessions) = 2
    /\ sessions[1].debug /\ ~sessions[2].debug
    /\ sessions[2].session.user_agent_extra = "Botocore/1.8.2"
    /\ endpoint_filters = 1

RedactedOperation(rec) ==
    /\ startswith(rec.msg, "Making request")
    /\ Len(rec.args) > 0
    /\ "name" \in DOMAIN rec.args[1]
    /\ rec.args[1].name \in {"UpdateFunctionCode", "CreateFunction"}

\* C8: filter returns true for every record, never failing; it replaces
\* the last argument by the placeholder exactly when the message begins
\* with 'Making request' and the first argument names UpdateFunctionCode or
\* CreateFunction, and leaves everything else as it was.
C8_AlwaysKeep ==
    fret # Pending =>
        /\ fret = PyBool(TRUE)
        /\ record.msg = orig.msg
        /\ Len(record.args) = Len(orig.args)
        /\ RedactedOperation(orig) =>
               /\ record.args[Len(record.args)] = Placeholder
               /\ Front(record.args) = Front(orig.args)
        /\ ~RedactedOperation(orig) => record = orig

\* C10: a load by a factory of project root P returns the application that
\* P's app.py defines, whatever was loaded before and whatever sys.path
\* held, and sys.path only grows: the entries it started with stay, in
\* their order.
C10_LoadsOwnApp ==
    /\ (result.op = "load_chalice_app" /\ result.exc = NoExc) =>
           result.value = [type |-> "Chalice",
                           defined_in |-> result.self.project_dir]
    /\ IsSubsequence(initPath, sys_path)

====
